---------------------------- MODULE Spec2Model ----------------------------
(***************************************************************************)
(* Model of the tool-calling agent of src/app.py and of its two handlers   *)
(* in src/tools.py.                                                        *)
(*                                                                         *)
(* Strings whose characters matter (email, name, message, question) are    *)
(* sequences of one-character strings.  A value of a tool-call argument is *)
(* a tagged record, because the remote model may supply a number or a null *)
(* where the schema asks for a string.                                     *)
(*                                                                         *)
(* Specifications: HandlerSpec calls the two handlers on their own; Spec   *)
(* is the agent (UI or CLI) with one user; LiveSpec is Spec with the tool  *)
(* loop kept running; UsersSpec is the agent with several browsers on the  *)
(* UI; WritersSpec is several processes appending to one log file.         *)
(***************************************************************************)
EXTENDS Integers, Sequences, FiniteSets, TLC

\* ------------------------------------------------------------------ bounds
MaxLen == 5
MaxCalls == 2
MaxTurns == 2
MaxSends == 3
MaxTotal == 4
MaxParts == 2
MaxResets == 1
MaxUsers == 2
MaxWriters == 2
MaxAppends == 3

\* --------------------------------------------------------------- strings
NL == "\n"
Alphabet == {"a", "@", ".", " ", NL}

Strings == UNION {[1..n -> Alphabet] : n \in 0..MaxLen}

\* Python's \s on the characters of Alphabet
IsSpace(c) == c \in {" ", NL}

RECURSIVE LStrip(_)
LStrip(s) == IF s # <<>> /\ IsSpace(Head(s)) THEN LStrip(Tail(s)) ELSE s

RECURSIVE RStrip(_)
RStrip(s) ==
    IF s # <<>> /\ IsSpace(s[Len(s)]) THEN RStrip(SubSeq(s, 1, Len(s) - 1)) ELSE s

\* str.strip()
Strip(s) == RStrip(LStrip(s))

\* [^@\s]
EmailChar(c) == c # "@" /\ ~IsSpace(c)

\* ^[^@\s]+@[^@\s]+\.[^@\s]+ matching the whole of b
EmailBody(b) ==
    \E at \in 2..(Len(b) - 3) :
       /\ b[at] = "@"
       /\ \A k \in 1..Len(b) : k # at => EmailChar(b[k])
       /\ \E dot \in (at + 2)..(Len(b) - 1) : b[dot] = "."

\* mutant: the pattern without its \. (^[^@\s]+@[^@\s]+$)
EmailReNoDot(s) ==
    \E at \in 2..(Len(s) - 1) :
       /\ s[at] = "@"
       /\ \A k \in 1..Len(s) : k # at => EmailChar(s[k])

\* EMAIL_RE.match(s): $ matches at the end and before one final newline
EMAIL_RE(s) ==
    \/ EmailBody(s)
    \/ /\ s # <<>>
       /\ s[Len(s)] = NL
       /\ EmailBody(SubSeq(s, 1, Len(s) - 1))

\* ---------------------------------------------------------------- values
Str(s) == [kind |-> "str", val |-> s]
Num == [kind |-> "num", val |-> <<>>]
Null == [kind |-> "null", val |-> <<>>]

\* truth value of an argument: None and "" are falsy, a non-zero number is not
Truthy(v) == v.kind = "num" \/ (v.kind = "str" /\ v.val # <<>>)

\* (v or "")
OrEmpty(v) == IF Truthy(v) THEN v ELSE Str(<<>>)


\* ------------------------------------------------------------- tool results
NoError == [kind |-> "", detail |-> ""]

\* A tool result.  keys is the set of keys the mapping carries; a key that is
\* absent has the neutral value (NoError, 0, {}) in its field.  received_args
\* is {} or the singleton of the argument mapping.
Ok(idkey, uid, ts) ==
    [ok |-> TRUE, error |-> NoError, id |-> uid, ts |-> ts, received_args |-> {},
     keys |-> {"ok", idkey, "ts"}]

InvalidEmail(uid, ts) ==
    [ok |-> FALSE, error |-> [kind |-> "invalid_email", detail |-> ""],
     id |-> uid, ts |-> ts, received_args |-> {},
     keys |-> {"ok", "error", "lead_id", "ts"}]

\* mutant: the result for an unknown tool without the arguments received
UnknownToolNoArgs(name, args) ==
    [ok |-> FALSE, error |-> [kind |-> "unknown_tool", detail |-> name],
     id |-> 0, ts |-> 0, received_args |-> {},
     keys |-> {"ok", "error"}]

UnknownTool(name, args) ==
    [ok |-> FALSE, error |-> [kind |-> "unknown_tool", detail |-> name],
     id |-> 0, ts |-> 0, received_args |-> {args},
     keys |-> {"ok", "error", "received_args"}]

BadArguments(args) ==
    [ok |-> FALSE, error |-> [kind |-> "bad_arguments", detail |-> "TypeError"],
     id |-> 0, ts |-> 0, received_args |-> {args},
     keys |-> {"ok", "error", "received_args"}]

Runtime(cls) ==
    [ok |-> FALSE, error |-> [kind |-> "runtime", detail |-> cls],
     id |-> 0, ts |-> 0, received_args |-> {},
     keys |-> {"ok", "error"}]

NoResult ==
    [ok |-> FALSE, error |-> NoError, id |-> 0, ts |-> 0, received_args |-> {},
     keys |-> {}]

\* ---------------------------------------------------------------- handlers
\* What a call of a handler does: exc is "" when it returns res, else the class
\* of the exception it raises; log is the log file after the call; ran tells
\* whether the body was entered (an id and a timestamp were drawn).
Returned(res, log) == [exc |-> "", res |-> res, log |-> log, ran |-> TRUE]
Raised(cls, log) == [exc |-> cls, res |-> NoResult, log |-> log, ran |-> TRUE]

\* two records of one log hold the same data, whatever their id and time
SamePayload(a, b) ==
    IF "lead_id" \in DOMAIN a
    THEN a.email = b.email /\ a.name = b.name /\ a.message = b.message
    ELSE a.question = b.question

\* mutant: a record whose data the log holds already is not written again
AppendJsonlDedup(log, obj) ==
    IF \E k \in 1..Len(log) : SamePayload(log[k], obj) THEN log ELSE Append(log, obj)

\* mutant: the file is opened with "w", so it holds the latest record only
AppendJsonlOverwrite(log, obj) == <<obj>>

\* _append_jsonl(path, obj): one line more at the end of the file.  (The handlers
\* take io = "fail" for mkdir, open or write raising OSError, nothing written.)
AppendJsonl(log, obj) == Append(log, obj)

\* mutant: the fields are stored as they came, untrimmed
LeadEventRaw(email, name, message, uid, ts) ==
    [ts |-> ts, event |-> "lead_recorded", lead_id |-> uid,
     email |-> email, name |-> name, message |-> message]

LeadEvent(email, name, message, uid, ts) ==
    [ts |-> ts, event |-> "lead_recorded", lead_id |-> uid,
     email |-> Strip(email), name |-> Strip(name), message |-> Strip(message)]

\* mutant: the event is appended before the email is validated
RecordCustomerInterestLogsFirst(email, name, message, uid, ts, io, log) ==
    IF OrEmpty(email).kind # "str"
    THEN Raised("TypeError", log)
    ELSE IF OrEmpty(name).kind # "str" \/ OrEmpty(message).kind # "str"
    THEN Raised("AttributeError", log)
    ELSE IF io = "fail"
    THEN Raised("OSError", log)
    ELSE IF ~EMAIL_RE(OrEmpty(email).val)
    THEN Returned(InvalidEmail(uid, ts),
                  AppendJsonl(log, LeadEvent(OrEmpty(email).val, OrEmpty(name).val,
                                             OrEmpty(message).val, uid, ts)))
    ELSE Returned(Ok("lead_id", uid, ts),
                  AppendJsonl(log, LeadEvent(email.val, OrEmpty(name).val,
                                             OrEmpty(message).val, uid, ts)))

\* record_customer_interest(email, name, message), uid = uuid4(), ts = _now_iso()
RecordCustomerInterest(email, name, message, uid, ts, io, log) ==
    IF OrEmpty(email).kind # "str"
    THEN Raised("TypeError", log)
    ELSE IF ~EMAIL_RE(OrEmpty(email).val)
    THEN Returned(InvalidEmail(uid, ts), log)
    ELSE IF OrEmpty(name).kind # "str" \/ OrEmpty(message).kind # "str"
    THEN Raised("AttributeError", log)
    ELSE IF io = "fail"
    THEN Raised("OSError", log)
    ELSE Returned(Ok("lead_id", uid, ts),
                  AppendJsonl(log, LeadEvent(email.val, OrEmpty(name).val,
                                             OrEmpty(message).val, uid, ts)))

FeedbackEvent(q, uid, ts) ==
    [ts |-> ts, event |-> "feedback_recorded", feedback_id |-> uid, question |-> q]

\* mutant: a question that is empty after trimming is refused
RecordFeedbackNonEmpty(question, uid, ts, io, log) ==
    IF OrEmpty(question).kind # "str"
    THEN Raised("AttributeError", log)
    ELSE IF Strip(OrEmpty(question).val) = <<>>
    THEN Returned([ok |-> FALSE, error |-> [kind |-> "empty_question", detail |-> ""],
                   id |-> uid, ts |-> ts, received_args |-> {},
                   keys |-> {"ok", "error", "feedback_id", "ts"}], log)
    ELSE IF io = "fail"
    THEN Raised("OSError", log)
    ELSE Returned(Ok("feedback_id", uid, ts),
                  AppendJsonl(log, FeedbackEvent(Strip(OrEmpty(question).val), uid, ts)))

\* record_feedback(question)
RecordFeedback(question, uid, ts, io, log) ==
    IF OrEmpty(question).kind # "str"
    THEN Raised("AttributeError", log)
    ELSE IF io = "fail"
    THEN Raised("OSError", log)
    ELSE Returned(Ok("feedback_id", uid, ts),
                  AppendJsonl(log, FeedbackEvent(Strip(OrEmpty(question).val), uid, ts)))


\* ------------------------------------------------------------------- state
VARIABLES
    leads,        \* lines of leads.jsonl
    feedback,     \* lines of feedback.jsonl
    nextId,       \* the next value uuid4() gives (fresh on every call)
    clock,        \* the UTC time _now_iso() read last
    input,        \* handler harness: the call that is applied
    calls,        \* handler harness: the calls made so far, with their outcomes
    mode,         \* "ui" (Gradio) or "cli" (--no-ui)
    users,        \* the users connected: browsers of the UI, or the terminal
    actor,        \* the user whose event (send or reset) ran last, 0 if none
    authors,      \* authors[s]: the users whose messages the history of s holds
    disk,         \* concurrent writers: the contents of leads.jsonl
    wr,           \* concurrent writers: where each writer stands in its call
    atomic,       \* concurrent writers: the platform appends atomically
    pc,           \* where the worker that runs on_send / run_cli stands
    chat,         \* the session the UI closure (or run_cli) holds
    hist,         \* hist[s]: number of messages in the history of session s
    askChat,      \* ask's parameter chat: the session of the running turn
    resp,         \* _run_tools_if_any: resp, the parts of candidates[0]
    parts,        \* _run_tools_if_any: parts
    i,            \* _run_tools_if_any: position of the for loop in parts
    called_any,   \* _run_tools_if_any: called_any
    final,        \* what ask returned
    raisedExc,    \* the exception ask raised, "" if none
    reply,        \* what the caller of ask showed the user
    wire,         \* the message of the latest send_message call
    turns,        \* number of user turns started
    total,        \* number of send_message calls made since the start
    resets,       \* number of resets done
    sends,        \* this turn: send_message calls made
    toolSends,    \* this turn: function_response sends made
    handled,      \* this turn: tool calls the loop processed
    invoked,      \* this turn: calls fn(**args) made
    script,       \* this turn: number of tool calls of each response received
    owed,         \* this turn: tool calls received and not answered yet
    dup,          \* this turn: some tool call was answered twice or wrongly
    partsOf       \* this turn: which response parts was taken from

logVars == <<leads, feedback, nextId, clock>>
harnessVars == <<input, calls>>
writerVars == <<disk, wr, atomic>>
sessionVars == <<mode, users, chat, hist, authors, resets>>
loopVars == <<pc, askChat, resp, parts, i, called_any, final, raisedExc, reply, wire>>
turnVars == <<turns, total, sends, toolSends, handled, invoked, script, owed, dup,
              partsOf>>

\* --------------------------------------------------- the handlers on their own
TOOLS_MAP == {"record_customer_interest", "record_feedback"}

Names == {Str(<<" ", "a", " ">>), Null, Num}
Messages == {Str(<<"a", NL>>), Str(<<>>)}

LeadInputs ==
    {[name |-> "record_customer_interest",
      args |-> [email |-> e, name |-> n, message |-> m]] :
        e \in {Str(s) : s \in Strings} \cup {Null, Num}, n \in Names, m \in Messages}

FeedbackInputs ==
    {[name |-> "record_feedback", args |-> [question |-> q]] :
        q \in {Str(s) : s \in Strings} \cup {Null, Num}}

NoCall == [name |-> "", args |-> <<>>]
\* a send_message call: the session, the message (role, and for a tool message
\* the function_response), whether it returned (ok) and the reply it returned;
\* exc is the exception the handler raised while the response was computed
Message(sess, role, name, response, exc, ok, r) ==
    [sess |-> sess, role |-> role, name |-> name, response |-> response,
     exc |-> exc, ok |-> ok, reply |-> IF ok THEN r ELSE <<>>]
NoWire == Message(0, "", "", NoResult, "", FALSE, <<>>)
NoText == [sep |-> "", toks |-> <<>>]

\* the processes that share the log directory, and one of them between two calls
Writers == 1..MaxWriters
Resting == [pc |-> "idle", line |-> <<>>, off |-> 0, done |-> {}]

\* the state main() leaves when it has built the model and the first session
Started ==
    /\ pc = "idle"
    /\ chat = 1
    /\ hist = <<0>>
    /\ authors = <<{}>>
    /\ actor = 0
    /\ disk = <<>>
    /\ wr = [w \in Writers |-> Resting]
    /\ askChat = 0
    /\ resp = <<>>
    /\ parts = <<>>
    /\ i = 1
    /\ called_any = FALSE
    /\ final = NoText
    /\ raisedExc = ""
    /\ reply = [kind |-> "none", text |-> NoText]
    /\ wire = NoWire
    /\ turns = 0
    /\ total = 0
    /\ resets = 0
    /\ sends = 0
    /\ toolSends = 0
    /\ handled = 0
    /\ invoked = 0
    /\ script = <<>>
    /\ owed = {}
    /\ dup = FALSE
    /\ partsOf = 0

HandlerInit ==
    /\ mode = "cli"
    /\ users = {1}
    /\ atomic = TRUE
    /\ Started
    /\ leads = <<>>
    /\ feedback = <<>>
    /\ nextId = 1
    /\ clock = 0
    /\ input \in LeadInputs \cup FeedbackInputs
    /\ calls = <<>>

\* one entry of calls: the arguments, the outcome and both logs before the call
CallEntry(out) ==
    [name |-> input.name, args |-> input.args, exc |-> out.exc, res |-> out.res,
     leads0 |-> leads, feedback0 |-> feedback]

CallLead ==
    /\ input.name = "record_customer_interest"
    /\ Len(calls) < MaxCalls
    /\ \E io \in {"ok", "fail"}, ts \in {clock, clock + 1} :
         LET a == input.args
             out == RecordCustomerInterest(a.email, a.name, a.message,
                                           nextId, ts, io, leads)
         IN /\ leads' = out.log
            /\ calls' = Append(calls, CallEntry(out))
            /\ clock' = ts
    /\ nextId' = nextId + 1
    /\ UNCHANGED <<feedback, input, writerVars, sessionVars, actor, loopVars, turnVars>>

CallFeedback ==
    /\ input.name = "record_feedback"
    /\ Len(calls) < MaxCalls
    /\ \E io \in {"ok", "fail"}, ts \in {clock, clock + 1} :
         LET out == RecordFeedback(input.args.question, nextId, ts, io, feedback)
         IN /\ feedback' = out.log
            /\ calls' = Append(calls, CallEntry(out))
            /\ clock' = ts
    /\ nextId' = nextId + 1
    /\ UNCHANGED <<leads, input, writerVars, sessionVars, actor, loopVars, turnVars>>

HandlerNext == CallLead \/ CallFeedback

vars == <<logVars, harnessVars, writerVars, sessionVars, actor, loopVars, turnVars>>

HandlerSpec == HandlerInit /\ [][HandlerNext]_vars


\* ------------------------------------------------- claims about the handlers
\* both logs after the k-th call of the harness
LeadsAfter(k) == IF k < Len(calls) THEN calls[k + 1].leads0 ELSE leads
FeedbackAfter(k) == IF k < Len(calls) THEN calls[k + 1].feedback0 ELSE feedback

IsLeadCall(c) == c.name = "record_customer_interest"
IsFeedbackCall(c) == c.name = "record_feedback"

\* s has a '.' somewhere after its last '@'
DotAfterAt(s) ==
    \E at \in 1..Len(s) :
       /\ s[at] = "@"
       /\ \A k \in (at + 1)..Len(s) : s[k] # "@"
       /\ \E d \in (at + 1)..Len(s) : s[d] = "."

\* the email strings C7 is about: no '@', or no '.' after the '@'
Malformed(v) == v.kind = "str" /\ ~DotAfterAt(v.val)

\* local@domain.tld: one '@', no whitespace, a non-empty local part and a '.'
\* in the domain with text on both sides
WellFormed(v) ==
    /\ v.kind = "str"
    /\ Cardinality({k \in 1..Len(v.val) : v.val[k] = "@"}) = 1
    /\ \A k \in 1..Len(v.val) : ~IsSpace(v.val[k])
    /\ LET at == CHOOSE k \in 1..Len(v.val) : v.val[k] = "@"
       IN /\ at > 1
          /\ \E d \in (at + 2)..(Len(v.val) - 1) : v.val[d] = "."

\* a value of the declared type: a string, or nothing
StrOrNull(v) == v.kind \in {"str", "null"}

\* C7: a call of record_customer_interest with an email string that has no '@'
\* or no '.' after the '@' returns ok=false, error "invalid_email", and leaves
\* the lead log as it was; two such calls with the same email return distinct
\* lead_ids and the lead log after both is as long as before both.
C7_InvalidEmailRejected ==
    /\ \A k \in 1..Len(calls) :
         (IsLeadCall(calls[k]) /\ Malformed(calls[k].args.email)) =>
            /\ calls[k].exc = ""
            /\ calls[k].res.ok = FALSE
            /\ calls[k].res.error = [kind |-> "invalid_email", detail |-> ""]
            /\ LeadsAfter(k) = calls[k].leads0
    /\ \A j, k \in 1..Len(calls) :
         (/\ j < k
          /\ IsLeadCall(calls[j]) /\ IsLeadCall(calls[k])
          /\ calls[j].args.email = calls[k].args.email
          /\ Malformed(calls[j].args.email)) =>
            /\ ~calls[j].res.ok /\ ~calls[k].res.ok
            /\ calls[j].res.id # calls[k].res.id
            /\ Len(LeadsAfter(k)) = Len(calls[j].leads0)

\* two calls were made with an email that has an '@' and a '.', the '.' before
\* the '@' only
C7_Witness ==
    /\ Len(calls) = 2
    /\ IsLeadCall(calls[1])
    /\ input.args.email = Str(<<"a", ".", "a", "@", "a">>)
    /\ ~calls[2].res.ok

\* C8: a call of record_customer_interest with an email local@domain.tld and
\* name and message of the declared type, whose write to the log does not fail,
\* returns ok=true with lead_id and ts and appends exactly one record, which
\* carries that lead_id and ts and the trimmed email, name and message.
C8_ValidEmailRecorded ==
    \A k \in 1..Len(calls) :
       LET c == calls[k] IN
       (/\ IsLeadCall(c)
        /\ WellFormed(c.args.email)
        /\ StrOrNull(c.args.name) /\ StrOrNull(c.args.message)) =>
          /\ c.exc \in {"", "OSError"}
          /\ c.exc = "OSError" => LeadsAfter(k) = c.leads0
          /\ c.exc = "" =>
               /\ c.res.ok
               /\ c.res.keys = {"ok", "lead_id", "ts"}
               /\ LeadsAfter(k) =
                    Append(c.leads0,
                           [ts |-> c.res.ts, event |-> "lead_recorded",
                            lead_id |-> c.res.id,
                            email |-> Strip(c.args.email.val),
                            name |-> Strip(OrEmpty(c.args.name).val),
                            message |-> Strip(OrEmpty(c.args.message).val)])
               /\ FeedbackAfter(k) = c.feedback0

\* a lead with a padded name was recorded twice
C8_Witness ==
    /\ Len(calls) = 2
    /\ IsLeadCall(calls[2])
    /\ WellFormed(input.args.email)
    /\ input.args.name = Str(<<" ", "a", " ">>)
    /\ calls[1].res.ok /\ calls[2].res.ok
    /\ Len(leads) = 2

\* C9: a call of record_feedback with any question string, the empty and the
\* whitespace-only one included, whose write to the log does not fail, returns
\* ok=true and appends exactly one record to the feedback log, holding the
\* trimmed question and the returned feedback_id and ts; the lead log is left
\* as it was.
C9_FeedbackRecorded ==
    \A k \in 1..Len(calls) :
       LET c == calls[k] IN
       (IsFeedbackCall(c) /\ c.args.question.kind = "str") =>
          /\ c.exc \in {"", "OSError"}
          /\ LeadsAfter(k) = c.leads0
          /\ c.exc = "OSError" => FeedbackAfter(k) = c.feedback0
          /\ c.exc = "" =>
               /\ c.res.ok
               /\ c.res.keys = {"ok", "feedback_id", "ts"}
               /\ FeedbackAfter(k) =
                    Append(c.feedback0,
                           [ts |-> c.res.ts, event |-> "feedback_recorded",
                            feedback_id |-> c.res.id,
                            question |-> Strip(c.args.question.val)])

\* a whitespace-only question was recorded
C9_Witness ==
    /\ Len(calls) >= 1
    /\ IsFeedbackCall(calls[1])
    /\ input.args.question = Str(<<" ", NL>>)
    /\ calls[1].res.ok
    /\ Len(FeedbackAfter(1)) = 1

\* a is an initial part of b
IsPrefix(a, b) == Len(a) <= Len(b) /\ SubSeq(b, 1, Len(a)) = a

\* the k-th call returned ok=true
Succeeded(k) == calls[k].exc = "" /\ calls[k].res.ok

\* C14: over any sequence of handler calls each log is append-only: what a log
\* held before a call is, unchanged and in order, a prefix of the log after
\* that call and after every later one; a call adds one record when it
\* succeeds and none otherwise, so n successful calls with the same arguments
\* leave n separate records.
C14_AppendOnly ==
    /\ \A k \in 1..Len(calls) :
          /\ IsPrefix(calls[k].leads0, LeadsAfter(k))
          /\ IsPrefix(calls[k].feedback0, FeedbackAfter(k))
          /\ IsPrefix(LeadsAfter(k), leads)
          /\ IsPrefix(FeedbackAfter(k), feedback)
          /\ (Len(LeadsAfter(k)) - Len(calls[k].leads0))
               + (Len(FeedbackAfter(k)) - Len(calls[k].feedback0))
               = IF Succeeded(k) THEN 1 ELSE 0
    /\ Len(leads) + Len(feedback) = Cardinality({k \in 1..Len(calls) : Succeeded(k)})
    /\ \A j, k \in 1..Len(leads) : j # k => leads[j].lead_id # leads[k].lead_id
    /\ \A j, k \in 1..Len(feedback) :
          j # k => feedback[j].feedback_id # feedback[k].feedback_id

\* the same question was recorded twice: two records that differ in their id
C14_Witness ==
    /\ Len(calls) = 2
    /\ IsFeedbackCall(calls[1])
    /\ Succeeded(1) /\ Succeeded(2)
    /\ Len(feedback) = 2
    /\ feedback[1].question = feedback[2].question
    /\ feedback[1].feedback_id # feedback[2].feedback_id


\* ------------------------------------------------------- the remote model
\* A part of candidates[0].content: a text or a function_call
TextPart(t) == [fc |-> FALSE, text |-> t, name |-> "", args |-> <<>>]
CallPart(name, args) == [fc |-> TRUE, text |-> "", name |-> name, args |-> args]

GoodEmail == Str(<<"a", "@", "a", ".", "a">>)
PadName == Str(<<" ", "a", " ">>)
Note == Str(<<"a", NL>>)

LeadGood ==
    CallPart("record_customer_interest",
             [email |-> GoodEmail, name |-> PadName, message |-> Note])
LeadBadEmail ==
    CallPart("record_customer_interest",
             [email |-> Str(<<"a", "@", "a">>), name |-> PadName, message |-> Note])
LeadMissing == CallPart("record_customer_interest", [email |-> GoodEmail, name |-> PadName])
LeadNumEmail ==
    CallPart("record_customer_interest",
             [email |-> Num, name |-> PadName, message |-> Note])
FeedbackGood == CallPart("record_feedback", [question |-> Str(<<" ", "a">>)])
FeedbackNum == CallPart("record_feedback", [question |-> Num])
Unknown == CallPart("lookup_order", [order |-> Note])

\* the tool calls the remote model may request
ToolCalls ==
    {LeadGood, LeadBadEmail, LeadMissing, LeadNumEmail, FeedbackGood, FeedbackNum,
     Unknown}

Parts == {TextPart("a")} \cup ToolCalls

\* the parts that occur in responses of more than one part
MultiParts == {TextPart("a"), LeadGood, Unknown}

\* the responses send_message may return
Responses ==
    {r \in UNION {[1..n -> Parts] : n \in 0..MaxParts} :
        Len(r) > 1 => \A k \in 1..Len(r) : r[k] \in MultiParts}

NumCalls(r) == Cardinality({k \in 1..Len(r) : r[k].fc})

\* ------------------------------------------------------------ the tool loop
\* the parameters of the handlers (all required, none with a default)
Params(name) ==
    IF name = "record_customer_interest" THEN {"email", "name", "message"}
    ELSE {"question"}

NotRun(cls, log) == [exc |-> cls, res |-> NoResult, log |-> log, ran |-> FALSE]

\* fn(**args) for fn = TOOLS_MAP[name]: binding the keywords raises TypeError
\* before the body runs when the keys are not the parameters
Invoke(name, args, uid, ts, io, lds, fbs) ==
    IF DOMAIN args # Params(name)
    THEN NotRun("TypeError", <<>>)
    ELSE IF name = "record_customer_interest"
    THEN RecordCustomerInterest(args.email, args.name, args.message, uid, ts, io, lds)
    ELSE RecordFeedback(args.question, uid, ts, io, fbs)

\* mutant: only the except TypeError clause
CatchesTypeErrorOnly(cls) == cls = "TypeError"

\* the classes the try statement catches: TypeError first, then Exception
Catches(cls) == cls \in {"TypeError", "AttributeError", "OSError"}

\* the except clauses of the try around fn(**args)
Caught(cls, args) ==
    IF cls = "TypeError" THEN BadArguments(args) ELSE Runtime(cls)

\* lines 112-123: the tool result of one function call.  uncaught is the class
\* of an exception that leaves the try statement, "" if none.
Dispatch(name, args, uid, ts, io, lds, fbs) ==
    IF name \notin TOOLS_MAP
    THEN [result |-> UnknownTool(name, args), leads |-> lds, feedback |-> fbs,
          ran |-> FALSE, invoked |-> FALSE, exc |-> "", uncaught |-> ""]
    ELSE LET out == Invoke(name, args, uid, ts, io, lds, fbs)
             hit == out.ran /\ name = "record_customer_interest"
             hitFb == out.ran /\ name = "record_feedback"
         IN [result |-> IF out.exc = "" THEN out.res
                        ELSE IF Catches(out.exc) THEN Caught(out.exc, args)
                        ELSE NoResult,
             leads |-> IF hit THEN out.log ELSE lds,
             feedback |-> IF hitFb THEN out.log ELSE fbs,
             ran |-> out.ran, invoked |-> TRUE, exc |-> out.exc,
             uncaught |-> IF out.exc # "" /\ ~Catches(out.exc) THEN out.exc ELSE ""]

\* final.text, and the fallback of ask when it raises (no part, or a part that
\* is a function call): the text attributes joined by newlines
AskText(r) ==
    IF r # <<>> /\ NumCalls(r) = 0
    THEN [sep |-> "", toks |-> [k \in 1..Len(r) |-> r[k].text]]
    ELSE [sep |-> NL, toks |-> [k \in 1..Len(r) |-> r[k].text]]

\* the tool calls of response number n, as the loop owes an answer for them
CallsOf(n, r) == {<<n, k, r[k].name>> : k \in {j \in 1..Len(r) : r[j].fc}}

\* mutant: an error of send_message is swallowed and the loop goes on
AfterSendSwallowed(ok, next) == next

\* where ask goes when send_message raised or returned
AfterSend(ok, next) == IF ok THEN next ELSE "raised"

\* mutant: the loop returns after its first pass
LoopReturnsAlways(any) == TRUE

\* mutant: the loop never returns
LoopReturnsNever(any) == FALSE

\* line 134: the loop returns resp when the pass over parts called no tool
LoopReturns(any) == ~any


\* ------------------------------------------------------------------ actions
Init ==
    /\ mode \in {"ui", "cli"}
    /\ users = {1}
    /\ atomic = TRUE
    /\ Started
    /\ leads = <<>>
    /\ feedback = <<>>
    /\ nextId = 1
    /\ clock = 0
    /\ input = NoCall
    /\ calls = <<>>

\* mutant: a turn is accepted while another one is running
Overlapping(p) == p # "exited"

\* when the next user turn is taken up: the queue of the UI runs one on_send
\* event at a time, and run_cli reads the next line when ask is over
Serial(p) == p = "idle"

\* on_send / run_cli call ask(chat, text); ask sends the user text (line 141)
Submit ==
    /\ Serial(pc)
    /\ turns < MaxTurns
    /\ total < MaxTotal
    /\ turns' = turns + 1
    /\ total' = total + 1
    /\ askChat' = chat
    /\ \E u \in users, ok \in BOOLEAN, r \in Responses :
         /\ actor' = u
         /\ authors' = IF ok THEN [authors EXCEPT ![chat] = @ \cup {u}] ELSE authors
         /\ wire' = Message(chat, "user", "", NoResult, "", ok, r)
         /\ pc' = AfterSend(ok, "loop")
         /\ raisedExc' = IF ok THEN "" ELSE "SendError"
         /\ resp' = IF ok THEN r ELSE <<>>
         /\ hist' = IF ok THEN [hist EXCEPT ![chat] = @ + 2] ELSE hist
         /\ script' = IF ok THEN <<NumCalls(r)>> ELSE <<>>
         /\ owed' = IF ok THEN CallsOf(1, r) ELSE {}
    /\ sends' = 1
    /\ toolSends' = 0
    /\ handled' = 0
    /\ invoked' = 0
    /\ dup' = FALSE
    /\ partsOf' = 0
    /\ parts' = <<>>
    /\ i' = 1
    /\ called_any' = FALSE
    /\ final' = NoText
    /\ UNCHANGED <<logVars, harnessVars, writerVars, mode, users, chat, resets, reply>>

\* lines 103-106: a new pass of the while loop over the parts of resp
LoopHead ==
    /\ pc = "loop"
    /\ called_any' = FALSE
    /\ parts' = resp
    /\ i' = 1
    /\ partsOf' = Len(script)
    /\ pc' = "for"
    /\ UNCHANGED <<logVars, harnessVars, writerVars, sessionVars, actor, askChat, resp, final, raisedExc,
                   reply, wire, turns, total, sends, toolSends, handled, invoked,
                   script, owed, dup>>

\* lines 108-110: a part that is no function call
SkipPart ==
    /\ pc = "for"
    /\ i <= Len(parts)
    /\ ~parts[i].fc
    /\ i' = i + 1
    /\ UNCHANGED <<logVars, harnessVars, writerVars, sessionVars, actor, pc, askChat, resp, parts,
                   called_any, final, raisedExc, reply, wire, turnVars>>

\* lines 111-133: one function call: its tool result, then the send of the
\* function_response, whose reply becomes resp.  _now_iso() reads clock + 1: a
\* round-trip to the remote model lies between two handler calls of the loop.
\* send_message returns a response (ok) or raises; the session keeps the
\* message and the reply in its history only when it returns.
ToolRoundTrip ==
    /\ pc = "for"
    /\ i <= Len(parts)
    /\ parts[i].fc
    /\ sends < MaxSends
    /\ total < MaxTotal
    /\ \E io \in {"ok", "fail"} :
       \E d \in {Dispatch(parts[i].name, parts[i].args, nextId, clock + 1, io,
                          leads, feedback)} :
       \E ok \in BOOLEAN, r \in Responses :
         LET name == parts[i].name
             sent == d.uncaught = ""
             id == <<partsOf, i, name>>
         IN /\ leads' = d.leads
            /\ feedback' = d.feedback
            /\ nextId' = IF d.ran THEN nextId + 1 ELSE nextId
            /\ clock' = IF d.ran THEN clock + 1 ELSE clock
            /\ invoked' = IF d.invoked THEN invoked + 1 ELSE invoked
            /\ wire' = IF sent
                       THEN Message(askChat, "tool", name, d.result, d.exc, ok, r)
                       ELSE wire
            /\ sends' = IF sent THEN sends + 1 ELSE sends
            /\ total' = IF sent THEN total + 1 ELSE total
            /\ toolSends' = IF sent THEN toolSends + 1 ELSE toolSends
            /\ pc' = IF sent THEN AfterSend(ok, "for") ELSE "raised"
            /\ raisedExc' = IF ~sent THEN d.uncaught
                            ELSE IF ok THEN "" ELSE "SendError"
            /\ IF sent /\ ok
               THEN /\ resp' = r
                    /\ hist' = [hist EXCEPT ![askChat] = @ + 2]
                    /\ script' = Append(script, NumCalls(r))
                    /\ owed' = (owed \ {id}) \cup CallsOf(Len(script) + 1, r)
                    /\ dup' = (dup \/ id \notin owed)
                    /\ i' = i + 1
               ELSE UNCHANGED <<resp, hist, script, owed, dup, i>>
    /\ called_any' = TRUE
    /\ handled' = handled + 1
    /\ UNCHANGED <<harnessVars, writerVars, mode, users, chat, authors, resets, actor,
                   askChat, parts, final, reply, turns, partsOf>>

\* lines 134-135 and 142-147: after the pass, loop again or return the text
ForEnd ==
    /\ pc = "for"
    /\ i > Len(parts)
    /\ IF LoopReturns(called_any)
       THEN pc' = "returned" /\ final' = AskText(resp)
       ELSE pc' = "loop" /\ final' = final
    /\ UNCHANGED <<logVars, harnessVars, writerVars, sessionVars, actor, askChat, resp, parts, i,
                   called_any, raisedExc, reply, wire, turnVars>>

\* ask is over: its locals are gone, and so is the bookkeeping of the turn
TurnOver ==
    /\ askChat' = 0
    /\ resp' = <<>>
    /\ parts' = <<>>
    /\ i' = 1
    /\ called_any' = FALSE
    /\ final' = NoText
    /\ raisedExc' = ""
    /\ wire' = NoWire
    /\ sends' = 0
    /\ toolSends' = 0
    /\ handled' = 0
    /\ invoked' = 0
    /\ script' = <<>>
    /\ owed' = {}
    /\ dup' = FALSE
    /\ partsOf' = 0
    /\ UNCHANGED <<turns, total>>

\* on_send, lines 155-160: the reply, or the apology when ask raised
OnSendDone ==
    /\ mode = "ui"
    /\ pc \in {"returned", "raised"}
    /\ reply' = IF pc = "returned" THEN [kind |-> "answer", text |-> final]
                ELSE [kind |-> "apology", text |-> NoText]
    /\ pc' = "idle"
    /\ TurnOver
    /\ UNCHANGED <<logVars, harnessVars, writerVars, sessionVars, actor>>

\* run_cli, line 197: print the answer; an exception of ask ends the program
CliDone ==
    /\ mode = "cli"
    /\ pc \in {"returned", "raised"}
    /\ reply' = IF pc = "returned" THEN [kind |-> "answer", text |-> final] ELSE reply
    /\ pc' = IF pc = "returned" THEN "idle" ELSE "exited"
    /\ TurnOver
    /\ UNCHANGED <<logVars, harnessVars, writerVars, sessionVars, actor>>

\* run_cli, lines 191-196: end of input, an empty line, exit or quit
CliQuit ==
    /\ mode = "cli"
    /\ pc = "idle"
    /\ pc' = "exited"
    /\ UNCHANGED <<logVars, harnessVars, writerVars, sessionVars, actor, askChat, resp, parts, i,
                   called_any, final, raisedExc, reply, wire, turnVars>>

\* _reset, lines 178-181: the closure variable chat is bound to a new session.
\* The click runs as its own event, also while on_send is in its tool loop.
Reset ==
    /\ mode = "ui"
    /\ resets < MaxResets
    /\ resets' = resets + 1
    /\ \E u \in users : actor' = u
    /\ chat' = Len(hist) + 1
    /\ hist' = Append(hist, 0)
    /\ authors' = Append(authors, {})
    /\ UNCHANGED <<logVars, harnessVars, writerVars, mode, users, loopVars, turnVars>>

Turn == Submit \/ LoopHead \/ SkipPart \/ ToolRoundTrip \/ ForEnd

Next == Turn \/ OnSendDone \/ CliDone \/ CliQuit \/ Reset

Spec == Init /\ [][Next]_vars

\* The UI with several browsers connected: build_ui makes one on_send and one
\* _reset, over one variable chat, and every browser's events call them.
UsersInit ==
    /\ mode \in {"ui", "cli"}
    /\ users = IF mode = "ui" THEN 1..MaxUsers ELSE {1}
    /\ atomic = TRUE
    /\ Started
    /\ leads = <<>>
    /\ feedback = <<>>
    /\ nextId = 1
    /\ clock = 0
    /\ input = NoCall
    /\ calls = <<>>

UsersSpec == UsersInit /\ [][Next]_vars


\* --------------------------------------------------- claims about the loop
\* a step that processes one function call (lines 111-133)
CallStep == handled' = handled + 1

\* the latest send_message call raised
SendFailed == wire.role # "" /\ ~wire.ok

\* C1: when ask has returned, every tool call of every response received in
\* the exchange was answered by exactly one function_response of its name.
C1_EveryCallAnswered == pc = "returned" => (owed = {} /\ ~dup)

\* C2: when the handler of a resolved tool call raises, the exception does not
\* leave the loop: a tool result with ok=false is sent for the call, and when
\* the send returns the loop goes on with the part after it.
C2_HandlerErrorCaught ==
    [][CallStep =>
         /\ raisedExc' \in {"", "SendError"}
         /\ wire'.role = "tool"
         /\ wire'.name = parts[i].name
         /\ wire'.exc # "" =>
              /\ ~wire'.response.ok
              /\ wire'.response.error.kind \in {"bad_arguments", "runtime"}
         /\ wire'.ok => (pc' = "for" /\ i' = i + 1 /\ parts' = parts)]_vars

\* the write of the first of two leads failed, the result was sent, and the
\* loop stands at the second call
C2_Witness ==
    /\ pc = "for"
    /\ parts = <<LeadGood, LeadGood>>
    /\ i = 2
    /\ wire.ok
    /\ wire.exc = "OSError"
    /\ wire.response.error = [kind |-> "runtime", detail |-> "OSError"]

\* C3: a tool call whose name is no key of TOOLS_MAP invokes no handler and
\* raises nothing; the function_response sent for it carries ok=false, error
\* unknown_tool:<name> and the arguments received, and when the send returns
\* the loop goes on with the part after it.
C3_UnknownToolAnswered ==
    [][(CallStep /\ parts[i].name \notin TOOLS_MAP) =>
         /\ invoked' = invoked
         /\ UNCHANGED logVars
         /\ raisedExc' \in {"", "SendError"}
         /\ wire'.role = "tool"
         /\ wire'.name = parts[i].name
         /\ wire'.response.ok = FALSE
         /\ wire'.response.error = [kind |-> "unknown_tool", detail |-> parts[i].name]
         /\ wire'.response.received_args = {parts[i].args}
         /\ wire'.response.keys = {"ok", "error", "received_args"}
         /\ wire'.ok => (pc' = "for" /\ i' = i + 1 /\ parts' = parts)]_vars

\* an unknown tool was answered and the loop stands at the call after it
C3_Witness ==
    /\ pc = "for"
    /\ parts = <<Unknown, LeadGood>>
    /\ i = 2
    /\ wire.ok
    /\ wire.name = "lookup_order"
    /\ wire.response.error.kind = "unknown_tool"

\* C4: a send_message call that raises makes ask raise that error without a
\* text; from then on the turn invokes no handler, writes no log and sends
\* nothing.
C4_SendErrorPropagates ==
    [][/\ SendFailed' => (pc' = "raised" /\ raisedExc' = "SendError" /\ final' = NoText)
       /\ SendFailed =>
            /\ total' = total
            /\ UNCHANGED logVars
            /\ pc' \in {"raised", "idle", "exited"}
            /\ pc' = "raised" =>
                 UNCHANGED <<sends, toolSends, handled, invoked, wire, final>>]_vars

\* the send of a tool result failed after a lead was written
C4_Witness ==
    /\ pc = "raised"
    /\ SendFailed
    /\ wire.role = "tool"
    /\ wire.response.ok
    /\ Len(leads) = 1

\* the responses received so far are those of a scripted model whose first
\* responses hold one tool call each and whose next one holds none
Scripted ==
    /\ script # <<>>
    /\ \A j \in 1..(Len(script) - 1) : script[j] = 1
    /\ script[Len(script)] \in {0, 1}

\* C6: with a scripted model whose first k responses hold one tool call each
\* and whose next response holds none, ask returns after k + 1 sends, k of them
\* tool results, one dispatch per call, with the text of that last response;
\* it does not return before that response and sends nothing after it.
C6_ScriptedRoundTrips ==
    /\ (pc = "returned" /\ Scripted) =>
         /\ script[Len(script)] = 0
         /\ sends = Len(script)
         /\ toolSends = Len(script) - 1
         /\ handled = Len(script) - 1
         /\ NumCalls(wire.reply) = 0
         /\ final.toks = [k \in 1..Len(wire.reply) |-> wire.reply[k].text]
    /\ \A m \in 1..(Len(script) - 1) :
         ~(script[m] = 0 /\ \A j \in 1..(m - 1) : script[j] = 1)

\* ask returned a text after two round-trips of one tool call each
C6_Witness ==
    /\ pc = "returned"
    /\ script = <<1, 1, 0>>
    /\ toolSends = 2
    /\ final.toks = <<"a">>

\* C10: the session a reset installs has no history, and every send_message
\* made after a reset goes to the session the latest reset installed.
C10_ResetSwitchesSession ==
    [][/\ resets' = resets + 1 => hist'[chat'] = 0
       /\ (total' = total + 1 /\ resets' > 0) => wire'.sess = chat']_vars

\* C11: with several users of the UI each conversation has its own session:
\* the session a user's message is sent to holds no message of another user,
\* and a reset by one user leaves the history of every other user in the
\* session their next turn uses.
C11_SessionsIsolated ==
    [][/\ turns' = turns + 1 => authors[chat] \subseteq {actor'}
       /\ resets' = resets + 1 =>
            \A u \in users \ {actor'} :
               u \in authors[chat] => u \in authors'[chat']]_vars

\* a turn is running: ask was called and has not returned or raised
InFlight == pc \in {"loop", "for"}

AskOver == pc \in {"returned", "raised"}

\* C13: every user turn ends with the user receiving the final answer of the
\* model, or one apology when ask raised (a send failed); the text shown is
\* the text ask returned, never a tool result.
C13_AnswerOrApology ==
    [][(AskOver /\ ~AskOver') =>
         /\ pc = "returned" => reply' = [kind |-> "answer", text |-> final]
         /\ pc = "raised" => reply' = [kind |-> "apology", text |-> NoText]]_vars

RECURSIVE SumSeq(_)
SumSeq(q) == IF q = <<>> THEN 0 ELSE Head(q) + SumSeq(Tail(q))

\* C16: the tool calls of a response are processed in the order of its parts,
\* each in a step that dispatches it and sends its result in a send of its
\* own before the next call is dispatched; the pass over a response ends when
\* none of its calls is unanswered, and when ask returns every response
\* received with k tool calls was given exactly k tool-result sends.
C16_OneRoundTripPerCall ==
    [][/\ CallStep =>
            /\ \A c \in owed : c[1] = partsOf => c[2] >= i
            /\ toolSends' = toolSends + 1
            /\ wire'.role = "tool" /\ wire'.name = parts[i].name
            /\ wire'.ok => (i' = i + 1 /\ parts' = parts)
       /\ (pc = "for" /\ pc' \in {"loop", "returned"}) =>
            \A c \in owed : c[1] # partsOf
       /\ pc' = "returned" => toolSends' = SumSeq(script')]_vars


\* the argument names of the call at hand do not fit the handler's parameters
Misfit == DOMAIN parts[i].args # Params(parts[i].name)

\* C17: for a resolved tool the result sent is bad_arguments, with the
\* arguments received, exactly when the argument names do not fit the
\* parameters of the handler; every other failure, raised in the body of the
\* handler, is sent as runtime without received_args.
C17_BadArgumentsIffMisfit ==
    [][(CallStep /\ parts[i].name \in TOOLS_MAP) =>
         /\ wire'.response.error.kind = "bad_arguments" <=> Misfit
         /\ wire'.response.error.kind = "bad_arguments" =>
              wire'.response.received_args = {parts[i].args}
         /\ (wire'.exc # "" /\ ~Misfit) =>
              /\ wire'.response.error.kind = "runtime"
              /\ wire'.response.received_args = {}]_vars


\* the number of records a step adds to the two logs together
Added == (Len(leads') - Len(leads)) + (Len(feedback') - Len(feedback))

\* C18: for every tool call the loop dispatches, one record is appended to a
\* log exactly when the result sent to the model has ok=true (to the log of
\* that tool, with the id the result carries); a result with ok=false
\* (unknown_tool, bad_arguments, invalid_email, runtime) leaves both logs as
\* they were.
C18_RecordIffOk ==
    [][CallStep =>
         /\ wire'.response.ok =>
              /\ Added = 1
              /\ parts[i].name = "record_customer_interest" =>
                   /\ leads' = Append(leads, leads'[Len(leads')])
                   /\ leads'[Len(leads')].lead_id = wire'.response.id
                   /\ feedback' = feedback
              /\ parts[i].name = "record_feedback" =>
                   /\ feedback' = Append(feedback, feedback'[Len(feedback')])
                   /\ feedback'[Len(feedback')].feedback_id = wire'.response.id
                   /\ leads' = leads
         /\ ~wire'.response.ok =>
              /\ leads' = leads
              /\ feedback' = feedback
              /\ wire'.response.error.kind \in
                   {"unknown_tool", "bad_arguments", "invalid_email", "runtime"}]_vars

\* a lead was recorded, and the next call, with a malformed email, was
\* answered with invalid_email
C18_Witness ==
    /\ wire.role = "tool"
    /\ wire.response.error.kind = "invalid_email"
    /\ Len(leads) = 1
    /\ handled = 2


\* the ids of the records the two logs hold
LoggedIds ==
    {leads[k].lead_id : k \in 1..Len(leads)}
        \cup {feedback[k].feedback_id : k \in 1..Len(feedback)}

\* C19: no step takes a record out of a log, neither a failed send nor what
\* the caller does after ask raised; and every dispatch whose handler returns
\* ok=true appends a record with an id no record had, also when the send of
\* that result then fails and also when the log holds the same data already
\* (the retried turn leaves a second record).
C19_NoRollbackOnSendError ==
    [][/\ IsPrefix(leads, leads')
       /\ IsPrefix(feedback, feedback')
       /\ (CallStep /\ wire'.response.ok) =>
            /\ Added = 1
            /\ wire'.response.id \notin LoggedIds
            /\ wire'.response.id \in LoggedIds']_vars

\* the first turn recorded a lead and ended in the apology, because the send
\* of the tool result failed; the second turn recorded the same lead again
C19_Witness ==
    /\ reply.kind = "apology"
    /\ turns = 2
    /\ total = 4
    /\ sends = 2
    /\ Len(leads) = 2
    /\ SamePayload(leads[1], leads[2])
    /\ leads[1].lead_id # leads[2].lead_id


\* C20: whenever ask returns, the response it returns the text of is the reply
\* to the last send_message of the turn, made on the session of the turn, and
\* that response holds no function call.
C20_ReturnsLatestToolFreeReply ==
    pc = "returned" =>
       /\ wire.ok
       /\ wire.sess = askChat
       /\ resp = wire.reply
       /\ \A k \in 1..Len(resp) : ~resp[k].fc
       /\ final = AskText(wire.reply)
       /\ script[Len(script)] = 0
       /\ Len(script) = sends

\* ask returned the reply to the second tool result, which came after a
\* response with two tool calls
C20_Witness ==
    /\ pc = "returned"
    /\ script = <<2, 0, 0>>
    /\ wire.role = "tool"
    /\ final.toks = <<"a">>



\* ------------------------------------------------- writers of one log file
\* Several processes (or threads) run the handlers with the same LOG_DIR and
\* hold no lock.  The file is a sequence of cells; a cell is part k of the n
\* parts of the JSON text of the record with that id, or the newline.
Newline == [id |-> 0, k |-> 0, of |-> 0]

\* json.dumps(obj): the text of the record uid, n cells long
Dumps(uid, n) == [k \in 1..n |-> [id |-> uid, k |-> k, of |-> n]]

\* the lengths of the records the writers append
BodyLens == {1, 2}

\* a write of line at offset off of the file d: the cells there are replaced,
\* the file grows as far as needed
WriteAt(d, off, line) ==
    [k \in 1..(IF Len(d) > off + Len(line) THEN Len(d) ELSE off + Len(line)) |->
        IF k > off /\ k <= off + Len(line) THEN line[k - off] ELSE d[k]]

\* mutant: the file is opened with "r+": the write goes to the start of the file
OsWriteAtStart(d, line) == WriteAt(d, 0, line)

\* one write of a file opened with mode "a" where the platform appends
\* atomically (O_APPEND): the line lands whole behind what the file holds
OsAppend(d, line) == d \o line

\* the log directory is shared from the start; the platform is either kind
WritersInit ==
    /\ mode = "cli"
    /\ users = {1}
    /\ atomic \in BOOLEAN
    /\ Started
    /\ leads = <<>>
    /\ feedback = <<>>
    /\ nextId = 1
    /\ clock = 0
    /\ input = NoCall
    /\ calls = <<>>

\* what a step of a writer leaves alone
WriterFrame ==
    UNCHANGED <<leads, feedback, clock, harnessVars, sessionVars, actor, loopVars,
                turnVars, atomic>>

\* a handler draws its id, builds the event and enters _append_jsonl:
\* path.open("a") (tools.py line 33)
WOpen(w) ==
    /\ wr[w].pc = "idle"
    /\ nextId <= MaxAppends
    /\ \E n \in BodyLens :
         wr' = [wr EXCEPT ![w].pc = "open",
                          ![w].line = Dumps(nextId, n) \o <<Newline>>]
    /\ nextId' = nextId + 1
    /\ disk' = disk
    /\ WriterFrame

\* f.write(json.dumps(obj) + "\n") (line 34): the line is in the buffer of the
\* file object, the file is as it was
WWrite(w) ==
    /\ wr[w].pc = "open"
    /\ wr' = [wr EXCEPT ![w].pc = "buffered"]
    /\ UNCHANGED <<disk, nextId>>
    /\ WriterFrame

\* the call is over: the handler returns ok=true
Returns(w) ==
    [wr EXCEPT ![w].pc = "idle", ![w].line = <<>>, ![w].off = 0,
               ![w].done = @ \cup {wr[w].line[1].id}]

\* end of the with block: close() flushes the buffer in one write; the
\* platform appends it atomically
WFlush(w) ==
    /\ atomic
    /\ wr[w].pc = "buffered"
    /\ disk' = OsAppend(disk, wr[w].line)
    /\ wr' = Returns(w)
    /\ nextId' = nextId
    /\ WriterFrame

\* end of the with block where append is a seek to the end followed by a
\* write (the C runtime of Windows, NFS): first the seek
WSeek(w) ==
    /\ ~atomic
    /\ wr[w].pc = "buffered"
    /\ wr' = [wr EXCEPT ![w].pc = "seeked", ![w].off = Len(disk)]
    /\ UNCHANGED <<disk, nextId>>
    /\ WriterFrame

\* then the write at the offset the seek found
WPut(w) ==
    /\ wr[w].pc = "seeked"
    /\ disk' = WriteAt(disk, wr[w].off, wr[w].line)
    /\ wr' = Returns(w)
    /\ nextId' = nextId
    /\ WriterFrame

WritersNext == \E w \in Writers : WOpen(w) \/ WWrite(w) \/ WFlush(w) \/ WSeek(w) \/ WPut(w)

WritersSpec == WritersInit /\ [][WritersNext]_vars

\* position p of the file is the start of a line
LineStart(p) == p = 1 \/ disk[p - 1] = Newline

\* the line that starts at p is one complete record
WholeAt(p) ==
    /\ disk[p] # Newline
    /\ disk[p].k = 1
    /\ p + disk[p].of <= Len(disk)
    /\ \A j \in 1..disk[p].of : disk[p + j - 1] = [id |-> disk[p].id, k |-> j, of |-> disk[p].of]
    /\ disk[p + disk[p].of] = Newline

\* the file is a sequence of complete records, and the record of every call
\* that returned is one of them
WholeRecords ==
    /\ \A p \in 1..Len(disk) : LineStart(p) => WholeAt(p)
    /\ \A w \in Writers : \A uid \in wr[w].done :
          Cardinality({p \in 1..Len(disk) : LineStart(p) /\ disk[p].id = uid}) = 1

\* C15 as stated: with several writers of one log file and no lock, in every
\* interleaving the file is a sequence of complete records, none split, mixed
\* with another or lost.
C15_WholeRecordsAlways == WholeRecords

\* C15 as amended: the same, where the platform appends atomically.
C15_WholeRecordsIfAtomic == atomic => WholeRecords

\* two calls overlapped: the writer that drew its id second wrote first, and
\* both records are in the file
C15_Witness ==
    /\ atomic
    /\ Len(disk) >= 4
    /\ disk[1].id = 2
    /\ \E w \in Writers : 1 \in wr[w].done
    /\ \E w \in Writers : 2 \in wr[w].done /\ 1 \notin wr[w].done


\* ------------------------------------------------------------- termination
\* The interpreter keeps running the tool loop: a step of the loop that can be
\* taken is taken (send_message and the handlers return or raise).
Loop == LoopHead \/ SkipPart \/ ToolRoundTrip \/ ForEnd

LiveSpec == Init /\ [][Next]_vars /\ WF_vars(Loop)

\* the latest response requests no tool
Quiet == NumCalls(resp) = 0

\* the loop stands at a function call the bounds of the model keep it from
\* processing
Capped ==
    /\ pc = "for"
    /\ i <= Len(parts)
    /\ parts[i].fc
    /\ (sends >= MaxSends \/ total >= MaxTotal)

InLoop == pc \in {"loop", "for"}

\* C5: when from some point on no response of the remote model requests a
\* tool, the tool loop is left for good (ask returns, or raises the error of a
\* send_message call); the loop itself stops for no other reason than a pass
\* that called no tool.
C5_Terminates ==
    /\ [](pc = "raised" => raisedExc = "SendError")
    /\ <>[]Quiet => <>[](~InLoop \/ Capped)

\* ask returned after as many round-trips as the model's bound on sends allows
C5_Witness ==
    /\ pc = "returned"
    /\ toolSends = MaxSends - 1
    /\ handled = toolSends

=============================================================================
